---- MODULE Spec2Model ----
(***************************************************************************)
(* The per-class fixture lifecycle of google.apputils.basetest:           *)
(* BeforeAfterTestCaseMeta wraps setUp, tearDown and every test method of  *)
(* each class of a hierarchy; the wrappers keep, per class, the set       *)
(* __tests_to_run and call setUpTestCase / tearDownTestCase.               *)
(***************************************************************************)
EXTENDS Integers, Sequences, FiniteSets, TLC

(***************************************************************************)
(* The class hierarchy under test.  unittest's TestCase is the root; A is  *)
(* the base that declares the metaclass, the hooks, setUp and tearDown and *)
(* no tests; B(A) inherits setUp/tearDown and declares t1,t2; C(A)         *)
(* overrides setUp and tearDown, calling A's from inside its own bodies,   *)
(* and declares u1; D(B) inherits everything from B and adds d1, so it     *)
(* sees three tests.                                                       *)
(***************************************************************************)
Root == "TestCase"

Instrumented == {"A", "B", "C", "D"}

Parent == [c \in Instrumented |->
            CASE c = "A" -> Root
              [] c = "B" -> "A"
              [] c = "C" -> "A"
              [] c = "D" -> "B"]

DeclTests == [c \in Instrumented |->
               CASE c = "A" -> {}
                 [] c = "B" -> {"t1", "t2"}
                 [] c = "C" -> {"u1"}
                 [] c = "D" -> {"d1"}]

\* classes whose class body defines setUp / tearDown
DeclaresSetUp == {"A", "C"}
DeclaresTearDown == {"A", "C"}

\* overriding bodies that have statements on both sides of the call of the
\* inherited method
CallsInheritedInside == {"C"}

\* test_names = set(cls._test_loader.getTestCaseNames(cls)): the test
\* methods the class can see, its own and the inherited ones.
RECURSIVE test_names(_)
test_names(cls) ==
  IF cls = Root THEN {} ELSE DeclTests[cls] \cup test_names(Parent[cls])

\* the classes the runner instantiates: those that can see a test
Leaves == {c \in Instrumented : test_names(c) # {}}

Names == UNION {DeclTests[c] : c \in Instrumented}

(***************************************************************************)
(* cls.__tests_to_run: None, or a set of names.                            *)
(***************************************************************************)
None == [isNone |-> TRUE, names |-> {}]
SetOf(S) == [isNone |-> FALSE, names |-> S]

(***************************************************************************)
(* Events: what an observer of the hooks and of the original bodies sees.  *)
(***************************************************************************)
HookEv(h) == [ev |-> h, cls |-> "A", part |-> "call"]
BodyEv(m, cls, part) == [ev |-> m, cls |-> cls, part |-> part]
NoFault == [ev |-> "none", cls |-> "-", part |-> "-"]

\* a log entry: the event, and the instance's class's __tests_to_run when
\* it happened
Entry(e, left) == [ev |-> e.ev, cls |-> e.cls, part |-> e.part, left |-> left]
Point(x) == [ev |-> x.ev, cls |-> x.cls, part |-> x.part]

\* the threads of a runner that runs tests in parallel
Threads == {"T1", "T2"}

\* a thread that is not running a test
Idle == [pc |-> "idle", lvl |-> "-", test |-> "-", overlap |-> FALSE]

\* no call of _SortedListDifference has been made
NoCall == [expected |-> <<>>, actual |-> <<>>, missing |-> <<>>,
           unexpected |-> <<>>, pc |-> "idle"]

VARIABLES
  tests_to_run,          \* [Instrumented -> None or a set]: cls.__tests_to_run
  setUpTestCaseCalls,    \* [Leaves -> Nat]: calls of self.setUpTestCase() in this run of the class
  tearDownTestCaseCalls, \* [Leaves -> Nat]: calls of self.tearDownTestCase() in this run
  log,                   \* the events of the current setUp/test/tearDown triple
  exc,                   \* the last wrapped call raised
  pc,                    \* the runner: "idle", "test", "tearDown" or "finished"
  cur,                   \* [self, test]: the current instance's class and its test method
  lastOp,                \* the runner's last step
  executed,              \* [Leaves -> SUBSET Names]: tests begun in this run of the class
  health,                \* [Leaves -> "clean" | "testFailed" | "broken"]: what raised in this run
  fresh,                 \* [Leaves -> BOOLEAN]: __tests_to_run was None when this run began
  runNo,                 \* [Leaves -> Nat]: which run of the class this is, from 1
  raised,                \* number of times user code has raised
  hooks,                 \* the hooks the user's base class A defines itself
  ret,                   \* what the last wrapped call returned
  hookBalance            \* [Leaves -> Int]: setUpTestCase calls minus tearDownTestCase
                         \* calls on the class's instances since the class was defined
  ,setUpFailed           \* [Leaves -> SUBSET Names]: tests of this run whose original
                         \* setUp body raised
  ,thread                \* [Threads -> [pc, lvl, test, overlap]]: where each thread of
                         \* a threaded runner is in the wrappers
  ,diff                  \* [expected, actual, missing, unexpected, pc]: a call of
                         \* _SortedListDifference, its arguments and its result

vars == <<tests_to_run, setUpTestCaseCalls, tearDownTestCaseCalls, log, exc, pc,
          cur, lastOp, executed, health, fresh, runNo, raised, hooks,
          ret, hookBalance, setUpFailed, thread, diff>>

(***************************************************************************)
(* The wrappers.  They are evaluated on a record                           *)
(*   s = [ttr, before, after, log, exc, ret]                               *)
(* holding every class's __tests_to_run, the hook call counts, the events  *)
(* so far, whether an exception is propagating, and the value returned.  `self` is the class of *)
(* the instance the method is called on; `fault` is the event at which the *)
(* user's code raises (NoFault: nothing raises).                           *)
(***************************************************************************)
Raise(s) == [s EXCEPT !.exc = TRUE]

\* run a piece of user code: it is observed, and raises if it is the fault
Emit(s, self, e, fault) ==
  LET s1 == [s EXCEPT !.log = Append(@, Entry(e, s.ttr[self]))]
  IN  IF fault = e THEN Raise(s1) ELSE s1

\* (mutant) the wrappers keep their books on the class they were made for
leaf_IsWrappedClass(cls, self) == cls

\* leaf = self.__class__
leaf(cls, self) == self

AllHooks == {"setUpTestCase", "tearDownTestCase"}

\* (mutant) TestCase has no default hook: the attribute lookup fails
TestCase_hook_Missing(s) == Raise(s)

\* TestCase.setUpTestCase = TestCase.tearDownTestCase = lambda self: None
TestCase_hook(s) == s

\* self.setUpTestCase(): the hook A defines, or else TestCase's default
setUpTestCase(self, s, fault) ==
  LET s1 == [s EXCEPT !.before[self] = @ + 1]
  IN  IF "setUpTestCase" \in hooks
      THEN Emit(s1, self, HookEv("setUpTestCase"), fault)
      ELSE TestCase_hook(s1)

\* self.tearDownTestCase(): the hook A defines, or else TestCase's default
tearDownTestCase(self, s, fault) ==
  LET s1 == [s EXCEPT !.after[self] = @ + 1]
  IN  IF "tearDownTestCase" \in hooks
      THEN Emit(s1, self, HookEv("tearDownTestCase"), fault)
      ELSE TestCase_hook(s1)

RECURSIVE setUp(_, _, _, _), cls_setUp(_, _, _, _)

\* (mutant) the wrapper runs the original setUp before its own check, as the
\* tearDown wrapper does
setUp_BodyFirst(cls, self, s, fault) ==
  IF cls = Root THEN s
  ELSE
    LET s1 == cls_setUp(cls, self, s, fault)
        l  == leaf(cls, self)
    IN  IF s1.exc THEN s1
        ELSE IF s1.ttr[l].isNone
             THEN setUpTestCase(self,
                    [s1 EXCEPT !.ttr[l] = SetOf(test_names(cls))], fault)
             ELSE s1

\* (mutant) the wrapper fills the set with the tests the class declares
\* itself, leaving out the inherited ones
setUp_OwnNames(cls, self, s, fault) ==
  IF cls = Root THEN s
  ELSE
    LET l  == leaf(cls, self)
        s1 == IF s.ttr[l].isNone
              THEN setUpTestCase(self,
                     [s EXCEPT !.ttr[l] = SetOf(DeclTests[cls])], fault)
              ELSE s
    IN  IF s1.exc THEN s1 ELSE cls_setUp(cls, self, s1, fault)

\* the setUp that SetSetUpAttr(cls, test_names) installs on cls; on the
\* root it is unittest.TestCase.setUp, which does nothing
setUp(cls, self, s, fault) ==
  IF cls = Root THEN s
  ELSE
    LET l  == leaf(cls, self)
        s1 == IF s.ttr[l].isNone
              THEN setUpTestCase(self,
                     [s EXCEPT !.ttr[l] = SetOf(test_names(cls))], fault)
              ELSE s
    IN  IF s1.exc THEN s1 ELSE cls_setUp(cls, self, s1, fault)

\* cls_setUp = cls.setUp, read before the wrapper is installed: the body the
\* class declares, or else the parent's (already wrapped) attribute
cls_setUp(cls, self, s, fault) ==
  IF cls \in DeclaresSetUp
  THEN LET s1 == Emit(s, self, BodyEv("setUp", cls, "pre"), fault)
           s2 == IF s1.exc THEN s1 ELSE setUp(Parent[cls], self, s1, fault)
       IN  IF s2.exc \/ cls \notin CallsInheritedInside THEN s2
           ELSE Emit(s2, self, BodyEv("setUp", cls, "post"), fault)
  ELSE setUp(Parent[cls], self, s, fault)

RECURSIVE tearDown(_, _, _, _), cls_tearDown(_, _, _, _)

\* (mutant) the wrapper forgets to reset __tests_to_run before the hook
tearDown_NoReset(cls, self, s, fault) ==
  IF cls = Root THEN s
  ELSE
    LET s1 == cls_tearDown(cls, self, s, fault)
        l  == leaf(cls, self)
    IN  IF s1.exc THEN s1
        ELSE IF ~s1.ttr[l].isNone /\ Cardinality(s1.ttr[l].names) = 0
             THEN tearDownTestCase(self, s1, fault)
             ELSE s1

\* (mutant) the wrapper resets __tests_to_run after the hook has returned
tearDown_HookBeforeReset(cls, self, s, fault) ==
  IF cls = Root THEN s
  ELSE
    LET s1 == cls_tearDown(cls, self, s, fault)
        l  == leaf(cls, self)
    IN  IF s1.exc THEN s1
        ELSE IF ~s1.ttr[l].isNone /\ Cardinality(s1.ttr[l].names) = 0
             THEN LET s2 == tearDownTestCase(self, s1, fault)
                  IN  IF s2.exc THEN s2 ELSE [s2 EXCEPT !.ttr[l] = None]
             ELSE s1

\* (mutant) the wrapper takes None for an empty set
tearDown_NoneIsEmpty(cls, self, s, fault) ==
  IF cls = Root THEN s
  ELSE
    LET s1 == cls_tearDown(cls, self, s, fault)
        l  == leaf(cls, self)
    IN  IF s1.exc THEN s1
        ELSE IF Cardinality(s1.ttr[l].names) = 0
             THEN tearDownTestCase(self, [s1 EXCEPT !.ttr[l] = None], fault)
             ELSE s1

\* the tearDown that SetTearDownAttr(cls) installs on cls
tearDown(cls, self, s, fault) ==
  IF cls = Root THEN s
  ELSE
    LET s1 == cls_tearDown(cls, self, s, fault)
        l  == leaf(cls, self)
    IN  IF s1.exc THEN s1
        ELSE IF ~s1.ttr[l].isNone /\ Cardinality(s1.ttr[l].names) = 0
             THEN tearDownTestCase(self, [s1 EXCEPT !.ttr[l] = None], fault)
             ELSE s1

\* cls_tearDown = cls.tearDown, read before the wrapper is installed
cls_tearDown(cls, self, s, fault) ==
  IF cls \in DeclaresTearDown
  THEN LET s1 == Emit(s, self, BodyEv("tearDown", cls, "pre"), fault)
           s2 == IF s1.exc THEN s1 ELSE tearDown(Parent[cls], self, s1, fault)
       IN  IF s2.exc \/ cls \notin CallsInheritedInside THEN s2
           ELSE Emit(s2, self, BodyEv("tearDown", cls, "post"), fault)
  ELSE tearDown(Parent[cls], self, s, fault)

\* Python's None as a return value, and the value the body of test t returns
NoValue == "None"
Returns(t) == t

RECURSIVE test(_, _, _, _, _), cls_test(_, _, _, _, _)

\* (mutant) the wrapper calls the original test method and drops its result
test_NoReturn(cls, test_name, self, s, fault) ==
  LET l == leaf(cls, self)
  IN  IF s.ttr[l].isNone THEN Raise(s)
      ELSE [cls_test(cls, test_name, self,
                     [s EXCEPT !.ttr[l] = SetOf(@.names \ {test_name})], fault)
              EXCEPT !.ret = NoValue]

\* (mutant) the wrapper discards the name after the test body has returned
test_DiscardAfter(cls, test_name, self, s, fault) ==
  LET l == leaf(cls, self)
  IN  IF s.ttr[l].isNone THEN Raise(s)
      ELSE LET s1 == cls_test(cls, test_name, self, s, fault)
           IN  IF s1.exc THEN s1
               ELSE [s1 EXCEPT !.ttr[l] = SetOf(@.names \ {test_name})]

\* (mutant) the wrapper uses remove(), which raises KeyError on an absent name
test_Remove(cls, test_name, self, s, fault) ==
  LET l == leaf(cls, self)
  IN  IF s.ttr[l].isNone \/ test_name \notin s.ttr[l].names THEN Raise(s)
      ELSE cls_test(cls, test_name, self,
                    [s EXCEPT !.ttr[l] = SetOf(@.names \ {test_name})], fault)

\* the test(self, cls_test, test_name) that SetTestMethodAttrs installs on
\* cls under test_name; None.discard raises AttributeError
test(cls, test_name, self, s, fault) ==
  LET l == leaf(cls, self)
  IN  IF s.ttr[l].isNone THEN Raise(s)
      ELSE cls_test(cls, test_name, self,
                    [s EXCEPT !.ttr[l] = SetOf(@.names \ {test_name})], fault)

\* cls_test = getattr(cls, test_name), read before the wrapper is installed:
\* the declared test body, or the parent's (already wrapped) attribute
cls_test(cls, test_name, self, s, fault) ==
  IF test_name \in DeclTests[cls]
  THEN LET s1 == Emit(s, self, BodyEv("test", cls, test_name), fault)
       IN  IF s1.exc THEN s1 ELSE [s1 EXCEPT !.ret = Returns(test_name)]
  ELSE test(Parent[cls], test_name, self, s, fault)

(***************************************************************************)
(* The sequential test runner (unittest.TestCase.run, driven by main()):   *)
(* one instance per test; setUp, then - unless setUp raised - the test     *)
(* method and tearDown, each triple finished before the next begins.       *)
(***************************************************************************)
MaxReruns == 1
MaxFaults == 1

Machine == [ttr |-> tests_to_run, before |-> setUpTestCaseCalls,
            after |-> tearDownTestCaseCalls, log |-> log, exc |-> FALSE,
            ret |-> NoValue]

\* the user code a call runs is what may raise in it: r is the call's result
\* when nothing raises, n the number of events before the call
FaultsOf(r, n) ==
  {NoFault} \cup (IF raised < MaxFaults
                  THEN {Point(r.log[i]) : i \in (n + 1)..Len(r.log)} ELSE {})

\* the number of further runs begun so far
RECURSIVE Sum(_, _)
Sum(f, S) == IF S = {} THEN 0
             ELSE LET x == CHOOSE y \in S : TRUE IN f[x] + Sum(f, S \ {x})
Reruns == Sum(runNo, Leaves) - Cardinality(Leaves)

Commit(r) ==
  /\ tests_to_run' = r.ttr
  /\ setUpTestCaseCalls' = r.before
  /\ tearDownTestCaseCalls' = r.after
  /\ log' = r.log
  /\ exc' = r.exc
  /\ raised' = IF r.exc THEN raised + 1 ELSE raised
  /\ ret' = r.ret
  /\ hookBalance' = [c \in Leaves |->
                       hookBalance[c] + (r.before[c] - setUpTestCaseCalls[c])
                                      - (r.after[c] - tearDownTestCaseCalls[c])]

Init ==
  /\ tests_to_run = [c \in Instrumented |-> None]
  /\ setUpTestCaseCalls = [c \in Leaves |-> 0]
  /\ tearDownTestCaseCalls = [c \in Leaves |-> 0]
  /\ log = <<>>
  /\ exc = FALSE
  /\ pc = "idle"
  /\ cur = [self |-> "-", test |-> "-"]
  /\ lastOp = "none"
  /\ executed = [c \in Leaves |-> {}]
  /\ health = [c \in Leaves |-> "clean"]
  /\ fresh = [c \in Leaves |-> TRUE]
  /\ runNo = [c \in Leaves |-> 1]
  /\ raised = 0
  /\ hooks = AllHooks
  /\ ret = NoValue
  /\ hookBalance = [c \in Leaves |-> 0]
  /\ setUpFailed = [c \in Leaves |-> {}]
  /\ thread = [t \in Threads |-> Idle]
  /\ diff = NoCall

\* the runner instantiates self(test_name) and calls self.setUp(); if that
\* raises, the test method and tearDown are not called
RunSetUp(self, test_name, fault) ==
  /\ pc = "idle"
  /\ test_name \in test_names(self) \ executed[self]
  /\ LET r == setUp(self, self, [Machine EXCEPT !.log = <<>>], fault)
     IN  /\ Commit(r)
         /\ pc' = IF r.exc THEN "idle" ELSE "test"
         /\ health' = [health EXCEPT ![self] = IF r.exc THEN "broken" ELSE @]
  /\ cur' = [self |-> self, test |-> test_name]
  /\ lastOp' = "setUp"
  /\ executed' = [executed EXCEPT ![self] = @ \cup {test_name}]
  /\ setUpFailed' = [setUpFailed EXCEPT ![self] =
                       IF exc' /\ Len(log') > 0 /\ log'[Len(log')].ev = "setUp"
                       THEN @ \cup {test_name} ELSE @]
  /\ UNCHANGED <<fresh, runNo, hooks, thread, diff>>

\* the runner calls the instance's test method
RunTest(fault) ==
  /\ pc = "test"
  /\ LET r == test(cur.self, cur.test, cur.self, Machine, fault)
     IN  /\ Commit(r)
         /\ health' = [health EXCEPT ![cur.self] =
                         IF r.exc /\ @ = "clean" THEN "testFailed" ELSE @]
  /\ pc' = "tearDown"
  /\ lastOp' = "test"
  /\ UNCHANGED <<cur, executed, fresh, runNo, hooks, setUpFailed, thread, diff>>

\* the runner calls self.tearDown(), whether the test method raised or not
RunTearDown(fault) ==
  /\ pc = "tearDown"
  /\ LET r == tearDown(cur.self, cur.self, Machine, fault)
     IN  /\ Commit(r)
         /\ health' = [health EXCEPT ![cur.self] = IF r.exc THEN "broken" ELSE @]
  /\ pc' = "idle"
  /\ lastOp' = "tearDown"
  /\ UNCHANGED <<cur, executed, fresh, runNo, hooks, setUpFailed, thread, diff>>

\* the runner, having gone through all the tests of a class, begins a
\* further run of them in the same process: the class keeps its
\* __tests_to_run
NewRun(self) ==
  /\ pc = "idle"
  /\ cur.self = self
  /\ Reruns < MaxReruns
  /\ executed[self] = test_names(self)
  /\ runNo' = [runNo EXCEPT ![self] = @ + 1]
  /\ executed' = [executed EXCEPT ![self] = {}]
  /\ health' = [health EXCEPT ![self] = "clean"]
  /\ fresh' = [fresh EXCEPT ![self] = tests_to_run[self].isNone]
  /\ setUpTestCaseCalls' = [setUpTestCaseCalls EXCEPT ![self] = 0]
  /\ tearDownTestCaseCalls' = [tearDownTestCaseCalls EXCEPT ![self] = 0]
  /\ lastOp' = "newRun"
  /\ log' = <<>>
  /\ exc' = FALSE
  /\ cur' = [self |-> self, test |-> "-"]
  /\ ret' = NoValue
  /\ setUpFailed' = [setUpFailed EXCEPT ![self] = {}]
  /\ UNCHANGED <<tests_to_run, pc, raised, hooks, hookBalance, thread, diff>>

\* the runner has run what it was asked to run: main() exits
Finish ==
  /\ pc = "idle"
  /\ pc' = "finished"
  /\ lastOp' = "finish"
  /\ UNCHANGED <<tests_to_run, setUpTestCaseCalls, tearDownTestCaseCalls, log,
                 exc, cur, executed, health, fresh, runNo, raised, hooks, ret,
                 hookBalance, setUpFailed, thread, diff>>

Next ==
  \/ \E self \in Leaves : \E test_name \in test_names(self) \ executed[self] :
       \E fault \in FaultsOf(setUp(self, self, [Machine EXCEPT !.log = <<>>], NoFault), 0) :
         RunSetUp(self, test_name, fault)
  \/ /\ pc = "test"
     /\ \E fault \in FaultsOf(test(cur.self, cur.test, cur.self, Machine, NoFault), Len(log)) :
          RunTest(fault)
  \/ /\ pc = "tearDown"
     /\ \E fault \in FaultsOf(tearDown(cur.self, cur.self, Machine, NoFault), Len(log)) :
          RunTearDown(fault)
  \/ \E self \in Leaves : NewRun(self)
  \/ Finish

Spec == Init /\ [][Next]_vars

(***************************************************************************)
(* Properties.                                                             *)
(***************************************************************************)
\* no triple of class c is in progress
Settled(c) == pc \in {"idle", "finished"} \/ cur.self # c

\* every test of c has been run in this run of c
AllRun(c) == Settled(c) /\ executed[c] = test_names(c)

\* C1: in a run of a leaf class that began with __tests_to_run = None and in
\* which every visible test was run once, in any order, and nothing raised,
\* setUpTestCase was called exactly once and tearDownTestCase exactly once.
C1_ExactlyOncePerRun ==
  \A c \in Leaves :
    (AllRun(c) /\ fresh[c] /\ health[c] = "clean")
      => setUpTestCaseCalls[c] = 1 /\ tearDownTestCaseCalls[c] = 1

\* the three tests of D have been run, t1 last, and the hooks fired once each
C1_Witness ==
  /\ pc = "idle" /\ cur = [self |-> "D", test |-> "t1"]
  /\ executed["D"] = {"t1", "t2", "d1"}
  /\ health["D"] = "clean" /\ fresh["D"]
  /\ setUpTestCaseCalls["D"] = 1 /\ tearDownTestCaseCalls["D"] = 1
IsBody(x) == x.ev \in {"setUp", "test", "tearDown"}

\* the calls of hook h among the log entries in the set I of positions
HookCalls(h, I) == Cardinality({j \in I : log[j].ev = h})

\* the setUpTestCase calls of the current run of cur.self made before entry i
BeforeCallsAt(i) ==
  setUpTestCaseCalls[cur.self] - HookCalls("setUpTestCase", i..Len(log))

\* C2: no original setUp body (of any class of the chain that declares
\* setUp) and no test body runs while the instance's class has
\* __tests_to_run = None, and in a run that began with None no setUp, test or
\* tearDown body runs before setUpTestCase has been called in that run.
C2_BeforeHookFirst ==
  Len(log) > 0 =>
    \A i \in 1..Len(log) :
      /\ log[i].ev \in {"setUp", "test"} => ~log[i].left.isNone
      /\ (IsBody(log[i]) /\ fresh[cur.self]) => BeforeCallsAt(i) >= 1

\* the first setUp of a run of C: the hook, then the bodies of C and A
C2_Witness ==
  /\ lastOp = "setUp" /\ cur.self = "C" /\ ~exc
  /\ Len(log) = 4
  /\ log[1].ev = "setUpTestCase"
  /\ log[2] = Entry(BodyEv("setUp", "C", "pre"), SetOf({"u1"}))
  /\ log[3] = Entry(BodyEv("setUp", "A", "pre"), SetOf({"u1"}))
  /\ log[4] = Entry(BodyEv("setUp", "C", "post"), SetOf({"u1"}))

\* C3: tearDownTestCase is called only after the tearDown body of the last
\* test has executed: no part of an original tearDown body, of any class of
\* the chain, runs after the hook in the same tearDown call.
C3_AfterHookLast ==
  \A i, j \in 1..Len(log) :
    (i < j /\ log[i].ev = "tearDownTestCase") => log[j].ev # "tearDown"

(***************************************************************************)
(* The reference for nesting: the same original methods with one wrapper   *)
(* each, made for the leaf itself.                                         *)
(***************************************************************************)
\* the class whose setUp and tearDown bodies c inherits
RECURSIVE Declarer(_)
Declarer(c) ==
  IF c \in DeclaresSetUp \cup DeclaresTearDown THEN c ELSE Declarer(Parent[c])

\* the number of wrappers around the setUp (and the tearDown) c inherits
RECURSIVE Wraps(_)
Wraps(c) == IF c = Declarer(c) THEN 1 ELSE 1 + Wraps(Parent[c])

\* leaves that inherit setUp and tearDown unchanged through K > 1 classes
Nested == {c \in Leaves : Wraps(c) > 1 /\ Parent[Declarer(c)] = Root}

\* the class that declares the test body
RECURSIVE TestDeclarer(_, _)
TestDeclarer(c, t) == IF t \in DeclTests[c] THEN c ELSE TestDeclarer(Parent[c], t)

Once_setUp(self, s, fault) ==
  LET s1 == IF s.ttr[self].isNone
            THEN setUpTestCase(self,
                   [s EXCEPT !.ttr[self] = SetOf(test_names(self))], fault)
            ELSE s
  IN  IF s1.exc THEN s1
      ELSE Emit(s1, self, BodyEv("setUp", Declarer(self), "pre"), fault)

Once_test(self, t, s, fault) ==
  IF s.ttr[self].isNone THEN Raise(s)
  ELSE Emit([s EXCEPT !.ttr[self] = SetOf(@.names \ {t})], self,
            BodyEv("test", TestDeclarer(self, t), t), fault)

Once_tearDown(self, s, fault) ==
  LET s1 == Emit(s, self, BodyEv("tearDown", Declarer(self), "pre"), fault)
  IN  IF s1.exc THEN s1
      ELSE IF ~s1.ttr[self].isNone /\ s1.ttr[self].names = {}
           THEN tearDownTestCase(self, [s1 EXCEPT !.ttr[self] = None], fault)
           ELSE s1

\* the user code that raised in the step just taken, if any
FaultOfStep ==
  IF exc' /\ Len(log') > (IF lastOp' = "setUp" THEN 0 ELSE Len(log))
  THEN Point(log'[Len(log')]) ELSE NoFault

Once_Step ==
  LET self == cur'.self
      f    == FaultOfStep
  IN  CASE lastOp' = "setUp"    -> Once_setUp(self, [Machine EXCEPT !.log = <<>>], f)
        [] lastOp' = "test"     -> Once_test(self, cur'.test, Machine, f)
        [] lastOp' = "tearDown" -> Once_tearDown(self, Machine, f)

\* C4: every setUp, test and tearDown call on an instance of a leaf whose
\* methods are wrapped K > 1 times (B: K = 2, D: K = 3), whether or not a
\* hook or a body raises in it, makes the same hook calls and original-body
\* calls in the same order, leaves the same __tests_to_run at each of them and
\* at the end, and raises or not, as the same methods wrapped once.
C4_RewrapIdempotent ==
  [][(lastOp' \in {"setUp", "test", "tearDown"} /\ cur'.self \in Nested)
       => /\ tests_to_run' = Once_Step.ttr
          /\ setUpTestCaseCalls' = Once_Step.before
          /\ tearDownTestCaseCalls' = Once_Step.after
          /\ log' = Once_Step.log
          /\ exc' = Once_Step.exc]_vars

\* the last tearDown of a run of D, through three wrappers: one hook call
C4_Witness ==
  /\ lastOp = "tearDown" /\ cur.self = "D" /\ Wraps("D") = 3 /\ "D" \in Nested
  /\ executed["D"] = test_names("D")
  /\ tests_to_run["D"].isNone
  /\ HookCalls("tearDownTestCase", 1..Len(log)) = 1
  /\ log[Len(log)].ev = "tearDownTestCase"

\* the test body of the current triple raised
TestBodyRaised ==
  \E i \in 1..Len(log) : log[i].ev = "test" /\ i = Len(log) /\ exc

\* C5: a test body, raising or not, runs with its name already removed from
\* the instance's class's __tests_to_run; after a test body has raised, the
\* tearDown that follows resets the set and calls tearDownTestCase if that
\* test was the last one; and a run that began with None, in which every
\* test was run and only test bodies raised, has had exactly one
\* setUpTestCase and one tearDownTestCase call.
C5_FailingTestConsumed ==
  /\ \A i \in 1..Len(log) :
       log[i].ev = "test"
         => ~log[i].left.isNone /\ log[i].part \notin log[i].left.names
  /\ (lastOp = "test" /\ TestBodyRaised)
       => /\ pc = "tearDown"
          /\ cur.test \notin tests_to_run[cur.self].names
  /\ \A c \in Leaves :
       (AllRun(c) /\ fresh[c] /\ health[c] = "testFailed")
         => /\ setUpTestCaseCalls[c] = 1 /\ tearDownTestCaseCalls[c] = 1
            /\ tests_to_run[c].isNone

\* the last test of B, t2, raised, and its tearDown fired the hook
C5_Witness ==
  /\ lastOp = "tearDown" /\ cur = [self |-> "B", test |-> "t2"] /\ ~exc
  /\ executed["B"] = {"t1", "t2"} /\ health["B"] = "testFailed" /\ fresh["B"]
  /\ \E i \in 1..Len(log) : log[i] = Entry(BodyEv("test", "B", "t2"), SetOf({}))
  /\ log[Len(log)].ev = "tearDownTestCase"
  /\ tearDownTestCaseCalls["B"] = 1

\* leaf classes with the same direct base
Siblings(c) == {b \in Leaves : b # c /\ Parent[b] = Parent[c]}

\* a wrapped call has just been made on an instance
WrappedCall == lastOp' \in {"setUp", "test", "tearDown"}

C6_Frame ==
  WrappedCall =>
    /\ \A c \in Instrumented \ {cur'.self} : tests_to_run'[c] = tests_to_run[c]
    /\ \A c \in Leaves \ {cur'.self} :
         /\ setUpTestCaseCalls'[c] = setUpTestCaseCalls[c]
         /\ tearDownTestCaseCalls'[c] = tearDownTestCaseCalls[c]

C6_Independent ==
  \A c \in Leaves : Siblings(c) # {} =>
    /\ (Settled(c) /\ fresh[c] /\ health[c] # "broken")
         => \/ tests_to_run[c].isNone /\ executed[c] \in {{}, test_names(c)}
            \/ /\ ~tests_to_run[c].isNone
               /\ tests_to_run[c].names = test_names(c) \ executed[c]
               /\ setUpTestCaseCalls[c] = 1 /\ tearDownTestCaseCalls[c] = 0
    /\ (AllRun(c) /\ fresh[c] /\ health[c] = "clean")
         => setUpTestCaseCalls[c] = 1 /\ tearDownTestCaseCalls[c] = 1

\* C6: the siblings B and C, which share the base A, keep independent
\* __tests_to_run sets under every interleaving of their triples: between its
\* triples each holds exactly its own tests not yet run, each gets one
\* setUpTestCase and one tearDownTestCase call per complete run, and a setUp,
\* test or tearDown call on an instance of one class changes no other class's
\* set (A's stays None) and no other class's hook counts.
C6_PerLeafIsolation == []C6_Independent /\ [][C6_Frame]_vars

\* B.t1 is done and B.t2 is still to run while C.u1's triple is under way
C6_Witness ==
  /\ pc = "tearDown" /\ cur = [self |-> "C", test |-> "u1"] /\ ~exc
  /\ "B" \in Siblings("C")
  /\ executed["B"] = {"t1"} /\ tests_to_run["B"] = SetOf({"t2"})
  /\ tests_to_run["C"] = SetOf({}) /\ tests_to_run["A"].isNone
  /\ setUpTestCaseCalls["B"] = 1 /\ setUpTestCaseCalls["C"] = 1
  /\ tearDownTestCaseCalls["B"] = 0

\* the first setUp of the current run of c has just been called
FirstSetUpOf(c) == lastOp = "setUp" /\ cur.self = c /\ executed[c] = {cur.test}

\* C7: a complete run of a leaf class in which nothing raised leaves its
\* __tests_to_run at None; and in a further run of a class that begins with
\* None, the first setUp calls setUpTestCase, with the set already refilled
\* with all the test names the class can see, before anything else, and the
\* run, once complete with nothing raised, has had exactly one setUpTestCase
\* and one tearDownTestCase call of its own.
C7_ResetAbility ==
  \A c \in Leaves :
    /\ (AllRun(c) /\ fresh[c] /\ health[c] = "clean") => tests_to_run[c].isNone
    /\ (runNo[c] > 1 /\ fresh[c]) =>
         /\ FirstSetUpOf(c) =>
              /\ setUpTestCaseCalls[c] = 1
              /\ log[1] = Entry(HookEv("setUpTestCase"), SetOf(test_names(c)))
              /\ ~exc => tests_to_run[c] = SetOf(test_names(c))
         /\ (AllRun(c) /\ health[c] = "clean") =>
              setUpTestCaseCalls[c] = 1 /\ tearDownTestCaseCalls[c] = 1

\* the second run of D has begun: its first setUp has fired the hook
C7_Witness ==
  /\ runNo["D"] = 2 /\ fresh["D"] /\ FirstSetUpOf("D") /\ ~exc /\ raised = 0
  /\ log[1].ev = "setUpTestCase"
  /\ tests_to_run["D"] = SetOf({"t1", "t2", "d1"})
  /\ setUpTestCaseCalls["D"] = 1 /\ tearDownTestCaseCalls["D"] = 0

\* C8: when the runner has finished, every leaf class of which at least one
\* test was executed (any subset of its visible tests, each with its setUp
\* and tearDown, nothing raising), in a run that began with None, has had
\* exactly one setUpTestCase call and exactly one tearDownTestCase call.
C8_ExactlyOnceAnySubset ==
  \A c \in Leaves :
    (pc = "finished" /\ executed[c] # {} /\ health[c] = "clean" /\ fresh[c])
      => setUpTestCaseCalls[c] = 1 /\ tearDownTestCaseCalls[c] = 1

\* setUpTestCase raised in the setUp call just made
BeforeHookRaised ==
  lastOp = "setUp" /\ exc /\ Len(log) > 0 /\ log[Len(log)].ev = "setUpTestCase"

\* C9: if setUpTestCase raises, the wrapped setUp raises without running an
\* original setUp body, the test body is not run, and the instance's class's
\* __tests_to_run is still None, so that the next setUp of the class calls
\* setUpTestCase again.
C9_BeforeHookFailureRetry ==
  BeforeHookRaised =>
    /\ pc = "idle" /\ Len(log) = 1
    /\ tests_to_run[cur.self].isNone

\* tearDownTestCase raised in the tearDown call just made
AfterHookRaised ==
  lastOp = "tearDown" /\ exc /\ Len(log) > 0
    /\ log[Len(log)].ev = "tearDownTestCase"

\* the tearDown call raised with the set reset before the hook was entered
C10_ResetRegardless ==
  AfterHookRaised =>
    /\ pc = "idle" /\ health[cur.self] = "broken"
    /\ log[Len(log)].left.isNone
    /\ tests_to_run[cur.self].isNone

\* the run that follows begins with None, and a run that begins with None
\* has setUpTestCase, with the set refilled, as the first thing its first
\* setUp does
C10_NextRunFresh ==
  /\ (AfterHookRaised /\ lastOp' = "newRun")
       => cur'.self = cur.self /\ fresh'[cur.self] /\ tests_to_run'[cur.self].isNone
  /\ (lastOp = "newRun" /\ tests_to_run[cur.self].isNone
        /\ lastOp' = "setUp" /\ cur'.self = cur.self)
       => /\ log'[1] = Entry(HookEv("setUpTestCase"), SetOf(test_names(cur.self)))
          /\ setUpTestCaseCalls'[cur.self] = 1
          /\ ~exc' => tests_to_run'[cur.self] = SetOf(test_names(cur.self))

\* C10: when tearDownTestCase raises, the wrapped tearDown raises (a failure
\* of the triggering test), and __tests_to_run of the instance's class was
\* reset to None before the hook ran and is None afterwards; the next run of
\* the class therefore begins with None, and its first setUp calls
\* setUpTestCase and refills the set with all the class's test names.
C10_AfterHookFailure == []C10_ResetRegardless /\ [][C10_NextRunFresh]_vars

\* the last tearDown of C: both bodies' first parts ran, then the hook raised
C10_Witness ==
  /\ AfterHookRaised /\ cur = [self |-> "C", test |-> "u1"]
  /\ log[Len(log)] = Entry(HookEv("tearDownTestCase"), None)
  /\ log[Len(log) - 1] = Entry(BodyEv("tearDown", "A", "pre"), SetOf({}))
  /\ tests_to_run["C"].isNone /\ tearDownTestCaseCalls["C"] = 1
  /\ health["C"] = "broken" /\ pc = "idle"

(***************************************************************************)
(* The same runner over a base class A that defines only one of the hooks, *)
(* or neither.                                                             *)
(***************************************************************************)
InitOptional ==
  /\ tests_to_run = [c \in Instrumented |-> None]
  /\ setUpTestCaseCalls = [c \in Leaves |-> 0]
  /\ tearDownTestCaseCalls = [c \in Leaves |-> 0]
  /\ log = <<>>
  /\ exc = FALSE
  /\ pc = "idle"
  /\ cur = [self |-> "-", test |-> "-"]
  /\ lastOp = "none"
  /\ executed = [c \in Leaves |-> {}]
  /\ health = [c \in Leaves |-> "clean"]
  /\ fresh = [c \in Leaves |-> TRUE]
  /\ runNo = [c \in Leaves |-> 1]
  /\ raised = 0
  /\ hooks \in (SUBSET AllHooks) \ {AllHooks}
  /\ ret = NoValue
  /\ hookBalance = [c \in Leaves |-> 0]
  /\ setUpFailed = [c \in Leaves |-> {}]
  /\ thread = [t \in Threads |-> Idle]
  /\ diff = NoCall

\* one run of each class: the runner goes through the tests and exits
NextOptional ==
  \/ \E self \in Leaves : \E test_name \in test_names(self) \ executed[self] :
       \E fault \in FaultsOf(setUp(self, self, [Machine EXCEPT !.log = <<>>], NoFault), 0) :
         RunSetUp(self, test_name, fault)
  \/ /\ pc = "test"
     /\ \E fault \in FaultsOf(test(cur.self, cur.test, cur.self, Machine, NoFault), Len(log)) :
          RunTest(fault)
  \/ /\ pc = "tearDown"
     /\ \E fault \in FaultsOf(tearDown(cur.self, cur.self, Machine, NoFault), Len(log)) :
          RunTearDown(fault)
  \/ Finish

SpecOptional == InitOptional /\ [][NextOptional]_vars

\* C11: with A (a class derived from basetest.TestCase) defining only
\* setUpTestCase, only tearDownTestCase, or neither, the missing hook is
\* TestCase's default, which does nothing: no call raises unless user code
\* that exists raised in it, and a run goes through the same states of
\* __tests_to_run: all the class's names after the first setUp, each name
\* removed by its test method, None again after the last tearDown.
C11_HooksOptional ==
  /\ hooks # AllHooks
  /\ \A i \in 1..Len(log) : log[i].ev \in {"setUp", "test", "tearDown"} \cup hooks
  /\ exc => Len(log) > 0 /\ raised > 0
  /\ \A c \in Leaves :
       /\ (FirstSetUpOf(c) /\ fresh[c] /\ ~exc)
            => tests_to_run[c] = SetOf(test_names(c)) /\ setUpTestCaseCalls[c] = 1
       /\ (lastOp = "test" /\ cur.self = c)
            => ~tests_to_run[c].isNone /\ cur.test \notin tests_to_run[c].names
       /\ (Settled(c) /\ fresh[c] /\ health[c] # "broken")
            => \/ tests_to_run[c].isNone /\ executed[c] = {}
               \/ /\ tests_to_run[c].isNone /\ executed[c] = test_names(c)
                  /\ setUpTestCaseCalls[c] = 1 /\ tearDownTestCaseCalls[c] = 1
               \/ /\ tests_to_run[c] = SetOf(test_names(c) \ executed[c])
                  /\ executed[c] # test_names(c)
                  /\ setUpTestCaseCalls[c] = 1 /\ tearDownTestCaseCalls[c] = 0

\* A defines neither hook: a complete run of D, the defaults called once each
C11_Witness ==
  /\ hooks = {} /\ lastOp = "tearDown" /\ cur.self = "D" /\ ~exc
  /\ executed["D"] = test_names("D") /\ health["D"] = "clean" /\ fresh["D"]
  /\ tests_to_run["D"].isNone
  /\ setUpTestCaseCalls["D"] = 1 /\ tearDownTestCaseCalls["D"] = 1
  /\ \A i \in 1..Len(log) : log[i].ev \notin AllHooks

(***************************************************************************)
(* The classes without the metaclass: the methods as the class bodies      *)
(* define them, found through the bases.                                   *)
(***************************************************************************)
RECURSIVE Plain_setUp(_, _, _, _)
Plain_setUp(cls, self, s, fault) ==
  IF cls = Root THEN s
  ELSE IF cls \in DeclaresSetUp
  THEN LET s1 == Emit(s, self, BodyEv("setUp", cls, "pre"), fault)
           s2 == IF s1.exc THEN s1 ELSE Plain_setUp(Parent[cls], self, s1, fault)
       IN  IF s2.exc \/ cls \notin CallsInheritedInside THEN s2
           ELSE Emit(s2, self, BodyEv("setUp", cls, "post"), fault)
  ELSE Plain_setUp(Parent[cls], self, s, fault)

RECURSIVE Plain_tearDown(_, _, _, _)
Plain_tearDown(cls, self, s, fault) ==
  IF cls = Root THEN s
  ELSE IF cls \in DeclaresTearDown
  THEN LET s1 == Emit(s, self, BodyEv("tearDown", cls, "pre"), fault)
           s2 == IF s1.exc THEN s1 ELSE Plain_tearDown(Parent[cls], self, s1, fault)
       IN  IF s2.exc \/ cls \notin CallsInheritedInside THEN s2
           ELSE Emit(s2, self, BodyEv("tearDown", cls, "post"), fault)
  ELSE Plain_tearDown(Parent[cls], self, s, fault)

Plain_test(self, t, s, fault) ==
  LET s1 == Emit(s, self, BodyEv("test", TestDeclarer(self, t), t), fault)
  IN  IF s1.exc THEN s1 ELSE [s1 EXCEPT !.ret = Returns(t)]

Plain_Step ==
  LET self == cur'.self
      s0   == [Machine EXCEPT !.log = <<>>]
  IN  CASE lastOp' = "setUp"    -> Plain_setUp(self, self, s0, FaultOfStep)
        [] lastOp' = "test"     -> Plain_test(self, cur'.test, s0, FaultOfStep)
        [] lastOp' = "tearDown" -> Plain_tearDown(self, self, s0, FaultOfStep)

\* the events of the call just made
NewEvents ==
  IF lastOp' = "setUp" THEN log' ELSE SubSeq(log', Len(log) + 1, Len(log'))

\* the original-body calls of a sequence of events, in order
Bodies(sq) == LET b == SelectSeq(sq, IsBody) IN [i \in 1..Len(b) |-> Point(b[i])]

\* C12: in every setUp, test or tearDown call in which no hook raises, the
\* original bodies that run, and their order, are those of the same call on
\* the class without the metaclass - each body once, whatever the number of
\* wrappers around it -, the call raises exactly when the plain call does,
\* and a test method that returns, returns what the original returned.
C12_WrappersTransparent ==
  [][(WrappedCall /\ FaultOfStep.ev \notin AllHooks)
       => /\ Bodies(NewEvents) = Bodies(Plain_Step.log)
          /\ exc' = Plain_Step.exc
          /\ ret' = Plain_Step.ret]_vars

\* D.t1, inherited from B and wrapped twice, has run once and returned
C12_Witness ==
  /\ lastOp = "test" /\ cur = [self |-> "D", test |-> "t1"] /\ ~exc
  /\ ret = Returns("t1")
  /\ Bodies(log) = << BodyEv("setUp", "A", "pre"), BodyEv("test", "B", "t1") >>

\* the first setUp call of a run has filled the set: the hook was called
\* right after, with the set as filled
Populated ==
  lastOp = "setUp" /\ Len(log) > 0 /\ log[1].ev = "setUpTestCase"

\* C13: whenever a setUp finds None and fills the instance's class's
\* __tests_to_run, it fills it with exactly the test names the instance's
\* class can see - for B and D, which inherit setUp unchanged from A, not
\* with A's (empty) set -, and no class's set ever holds a name the class
\* cannot see; A, never instantiated, keeps None.
C13_RuntimeLeafNames ==
  /\ Populated =>
       /\ log[1].left = SetOf(test_names(cur.self))
       /\ cur.self \in Nested => log[1].left # SetOf(test_names(Declarer(cur.self)))
       /\ ~exc => tests_to_run[cur.self] = SetOf(test_names(cur.self))
  /\ \A c \in Instrumented :
       /\ tests_to_run[c].names \subseteq test_names(c)
       /\ c \notin Leaves => tests_to_run[c].isNone

\* the first setUp on an instance of D, whose setUp is A's
C13_Witness ==
  /\ Populated /\ cur.self = "D" /\ ~exc /\ Declarer("D") = "A"
  /\ test_names("A") = {}
  /\ log[1].left = SetOf({"t1", "t2", "d1"})
  /\ log[2] = Entry(BodyEv("setUp", "A", "pre"), SetOf({"t1", "t2", "d1"}))

\* C14: a call of a wrapped test method, through however many wrappers and
\* whether or not its name is still in the set, leaves the instance's class's
\* __tests_to_run equal to what it was minus the method's own name, removed
\* before the original body runs; the original body runs - no wrapper raises
\* on an absent name -, and no other class's set changes.
C14_DiscardIdempotent ==
  [][lastOp' = "test" =>
       LET self == cur'.self
           t    == cur'.test
           left == SetOf(tests_to_run[self].names \ {t})
       IN  /\ ~tests_to_run[self].isNone
           /\ tests_to_run' = [tests_to_run EXCEPT ![self] = left]
           /\ log' = Append(log, Entry(BodyEv("test", TestDeclarer(self, t), t), left))
           /\ exc' => FaultOfStep = BodyEv("test", TestDeclarer(self, t), t)]_vars

\* D.t1, wrapped for B and for D: the inner wrapper found t1 already removed
C14_Witness ==
  /\ lastOp = "test" /\ cur = [self |-> "D", test |-> "t1"] /\ ~exc
  /\ TestDeclarer("D", "t1") = "B"
  /\ tests_to_run["D"] = SetOf({"t2", "d1"})
  /\ log[Len(log)] = Entry(BodyEv("test", "B", "t1"), SetOf({"t2", "d1"}))

\* the positions of the tearDownTestCase calls in the current triple
AfterHookAt == {i \in 1..Len(log) : log[i].ev = "tearDownTestCase"}

\* the positions of the original tearDown bodies that ran with the set
\* initialized and empty
EmptyAtBody ==
  {i \in 1..Len(log) : log[i].ev = "tearDown" /\ log[i].left = SetOf({})}

\* C15: tearDownTestCase is called at most once in a tearDown, right after
\* an original tearDown body has run, which saw the set initialized and
\* empty, and with the set already reset to None when the hook runs; a
\* tearDown that does not raise calls it if and only if its bodies saw the
\* set initialized and empty - never with a name left in the set, and not a
\* second time by the outer wrappers, which find None.
C15_TearDownCheck ==
  /\ Cardinality(AfterHookAt) <= 1
  /\ \A i \in AfterHookAt :
       /\ i > 1 /\ i - 1 \in EmptyAtBody
       /\ log[i].left = None
  /\ (lastOp = "tearDown" /\ ~exc) =>
       /\ (EmptyAtBody # {} <=> AfterHookAt # {})
       /\ EmptyAtBody = {} => ~tests_to_run[cur.self].isNone
                                /\ tests_to_run[cur.self].names # {}

\* the last tearDown of a run of D: A's body, then one hook call, although
\* three wrappers made the check
C15_Witness ==
  /\ lastOp = "tearDown" /\ cur.self = "D" /\ ~exc /\ Wraps("D") = 3
  /\ AfterHookAt = {Len(log)} /\ EmptyAtBody = {Len(log) - 1}
  /\ log[Len(log) - 1] = Entry(BodyEv("tearDown", "A", "pre"), SetOf({}))
  /\ log[Len(log)] = Entry(HookEv("tearDownTestCase"), None)
  /\ tests_to_run["D"] = None

C16_Balance ==
  \A c \in Leaves :
    /\ hookBalance[c] \in {0, 1}
    /\ hookBalance[c] = 0 <=> tests_to_run[c].isNone

C16_Alternate ==
  \A c \in Leaves :
    /\ setUpTestCaseCalls'[c] > setUpTestCaseCalls[c]
         => /\ hookBalance[c] = 0 /\ hookBalance'[c] = 1
            /\ setUpTestCaseCalls'[c] = setUpTestCaseCalls[c] + 1
    /\ tearDownTestCaseCalls'[c] > tearDownTestCaseCalls[c]
         => /\ hookBalance[c] = 1 /\ hookBalance'[c] = 0
            /\ tearDownTestCaseCalls'[c] = tearDownTestCaseCalls[c] + 1

\* C16: for each leaf class, over everything that has happened since the
\* class was defined - raising hooks and bodies, runs of only some tests,
\* further runs -, the setUpTestCase and tearDownTestCase calls alternate,
\* beginning with setUpTestCase: a setUpTestCase call is made only when as
\* many of each have been made, a tearDownTestCase call only when one more
\* setUpTestCase; and between calls of the wrapped methods the difference is 0
\* exactly when the class's __tests_to_run is None, and 1 otherwise.
C16_HookAlternation == []C16_Balance /\ [][C16_Alternate]_vars

\* a further run of B over a set left behind by a run in which something
\* raised: its first setUp made no setUpTestCase call, one is still open
C16_Witness ==
  /\ runNo["B"] = 2 /\ ~fresh["B"] /\ FirstSetUpOf("B") /\ ~exc
  /\ setUpTestCaseCalls["B"] = 0 /\ hookBalance["B"] = 1
  /\ ~tests_to_run["B"].isNone

\* the test of the current triple removed the last name from the set
EmptiedByTest ==
  \E i \in 1..Len(log) : log[i].ev = "test" /\ log[i].left = SetOf({})

\* an original tearDown body raised in the tearDown call just made
TearDownBodyRaised ==
  lastOp = "tearDown" /\ exc /\ Len(log) > 0 /\ log[Len(log)].ev = "tearDown"

\* C17: if an original tearDown body of the test that emptied the set
\* raises, tearDownTestCase is not called in that tearDown and the set stays
\* initialized and empty.
C17_TearDownBodyRaises ==
  (TearDownBodyRaised /\ EmptiedByTest)
    => AfterHookAt = {} /\ tests_to_run[cur.self] = SetOf({})

\* an original setUp body raised in the setUp call just made
SetUpBodyRaised ==
  lastOp = "setUp" /\ exc /\ Len(log) > 0 /\ log[Len(log)].ev = "setUp"

\* C18: when an original setUp body raises, the runner calls neither the test
\* method nor tearDown; in a run that began with None, the test's name stays
\* in the instance's class's __tests_to_run for the rest of the run: the set
\* is never empty and never reset, and tearDownTestCase is not called in that
\* run - also once every other test of the class has run - although
\* setUpTestCase was called once.
C18_SetUpBodyRaises ==
  /\ SetUpBodyRaised => pc = "idle" /\ cur.test \in setUpFailed[cur.self]
  /\ \A c \in Leaves : \A t \in setUpFailed[c] :
       /\ \A i \in 1..Len(log) :
            cur = [self |-> c, test |-> t] => log[i].ev \notin {"test", "tearDown"}
       /\ fresh[c] =>
            /\ ~tests_to_run[c].isNone /\ t \in tests_to_run[c].names
            /\ setUpTestCaseCalls[c] = 1 /\ tearDownTestCaseCalls[c] = 0

\* B.t1's setUp body raised; t2 has since run through its tearDown
C18_Witness ==
  /\ setUpFailed["B"] = {"t1"} /\ AllRun("B") /\ fresh["B"]
  /\ lastOp = "tearDown" /\ cur = [self |-> "B", test |-> "t2"] /\ ~exc
  /\ tests_to_run["B"] = SetOf({"t1"})
  /\ setUpTestCaseCalls["B"] = 1 /\ tearDownTestCaseCalls["B"] = 0

(***************************************************************************)
(* A runner that runs the tests of one class in parallel threads.  Each    *)
(* thread takes one test through setUp, the test method and tearDown; the  *)
(* steps are the statements of the wrappers, which take no lock.  The      *)
(* class is B: its setUp, tearDown are A's, wrapped for A and for B.       *)
(***************************************************************************)
ThreadedLeaf == "B"

\* the subclass of cls on the way down to the threaded leaf
RECURSIVE ChildToward(_, _)
ChildToward(cls, c) == IF Parent[c] = cls THEN c ELSE ChildToward(cls, Parent[c])

Active(t) == thread[t].pc \notin {"idle", "done"}

\* the variables of the sequential runner
runnerVars == <<log, exc, pc, cur, executed, health, fresh, runNo, raised, hooks,
                ret, setUpFailed, diff>>

Goto(t, pc1, lvl1) == thread' = [thread EXCEPT ![t].pc = pc1, ![t].lvl = lvl1]

\* the runner hands a test to an idle thread, which calls self.setUp()
Begin(t, test_name) ==
  /\ thread[t].pc = "idle"
  /\ thread' = [u \in Threads |->
                  IF u = t
                  THEN [pc |-> "setUp_if", lvl |-> ThreadedLeaf, test |-> test_name,
                        overlap |-> \E v \in Threads \ {t} : Active(v)]
                  ELSE [thread[u] EXCEPT !.overlap = @ \/ Active(u)]]
  /\ lastOp' = "begin"
  /\ UNCHANGED <<tests_to_run, setUpTestCaseCalls, tearDownTestCaseCalls,
                 hookBalance, runnerVars>>

\* if leaf.__tests_to_run is None:
SetUpIf(t) ==
  /\ thread[t].pc = "setUp_if"
  /\ Goto(t, IF tests_to_run[leaf(thread[t].lvl, ThreadedLeaf)].isNone
             THEN "setUp_assign" ELSE "setUp_call", thread[t].lvl)
  /\ lastOp' = "setUp_if"
  /\ UNCHANGED <<tests_to_run, setUpTestCaseCalls, tearDownTestCaseCalls,
                 hookBalance, runnerVars>>

\* leaf.__tests_to_run = set(test_names)
SetUpAssign(t) ==
  /\ thread[t].pc = "setUp_assign"
  /\ tests_to_run' = [tests_to_run EXCEPT ![leaf(thread[t].lvl, ThreadedLeaf)] =
                        SetOf(test_names(thread[t].lvl))]
  /\ Goto(t, "setUp_hook", thread[t].lvl)
  /\ lastOp' = "setUp_assign"
  /\ UNCHANGED <<setUpTestCaseCalls, tearDownTestCaseCalls, hookBalance, runnerVars>>

\* self.setUpTestCase()
SetUpHook(t) ==
  /\ thread[t].pc = "setUp_hook"
  /\ setUpTestCaseCalls' = [setUpTestCaseCalls EXCEPT ![ThreadedLeaf] = @ + 1]
  /\ hookBalance' = [hookBalance EXCEPT ![ThreadedLeaf] = @ + 1]
  /\ Goto(t, "setUp_call", thread[t].lvl)
  /\ lastOp' = "setUpTestCase"
  /\ UNCHANGED <<tests_to_run, tearDownTestCaseCalls, runnerVars>>

\* cls_setUp(self): the next wrapper down, or the original body, after which
\* setUp returns and the runner calls the test method
SetUpCall(t) ==
  /\ thread[t].pc = "setUp_call"
  /\ IF thread[t].lvl = Declarer(ThreadedLeaf)
     THEN Goto(t, "test_discard", ThreadedLeaf)
     ELSE Goto(t, "setUp_if", Parent[thread[t].lvl])
  /\ lastOp' = "setUp_call"
  /\ UNCHANGED <<tests_to_run, setUpTestCaseCalls, tearDownTestCaseCalls,
                 hookBalance, runnerVars>>

\* leaf.__tests_to_run.discard(test_name), then cls_test(self): the next
\* wrapper down or the original body; on None the call raises AttributeError
\* and the runner goes on to tearDown
TestDiscard(t) ==
  /\ thread[t].pc = "test_discard"
  /\ LET l == leaf(thread[t].lvl, ThreadedLeaf)
     IN  IF tests_to_run[l].isNone
         THEN /\ UNCHANGED tests_to_run
              /\ Goto(t, "tearDown_body", ThreadedLeaf)
         ELSE /\ tests_to_run' = [tests_to_run EXCEPT ![l] =
                                    SetOf(@.names \ {thread[t].test})]
              /\ IF thread[t].test \in DeclTests[thread[t].lvl]
                 THEN Goto(t, "test_body", thread[t].lvl)
                 ELSE Goto(t, "test_discard", Parent[thread[t].lvl])
  /\ lastOp' = "discard"
  /\ UNCHANGED <<setUpTestCaseCalls, tearDownTestCaseCalls, hookBalance, runnerVars>>

\* the original test body; the runner then calls self.tearDown()
TestBody(t) ==
  /\ thread[t].pc = "test_body"
  /\ Goto(t, "tearDown_body", ThreadedLeaf)
  /\ lastOp' = "test_body"
  /\ UNCHANGED <<tests_to_run, setUpTestCaseCalls, tearDownTestCaseCalls,
                 hookBalance, runnerVars>>

\* cls_tearDown(self), down to the original body, which returns to the
\* innermost wrapper
TearDownBody(t) ==
  /\ thread[t].pc = "tearDown_body"
  /\ Goto(t, "tearDown_if", Declarer(ThreadedLeaf))
  /\ lastOp' = "tearDown_body"
  /\ UNCHANGED <<tests_to_run, setUpTestCaseCalls, tearDownTestCaseCalls,
                 hookBalance, runnerVars>>

\* if leaf.__tests_to_run is not None and len(leaf.__tests_to_run) == 0:
TearDownIf(t) ==
  /\ thread[t].pc = "tearDown_if"
  /\ LET l == leaf(thread[t].lvl, ThreadedLeaf)
     IN  Goto(t, IF ~tests_to_run[l].isNone /\ Cardinality(tests_to_run[l].names) = 0
                 THEN "tearDown_reset" ELSE "tearDown_return", thread[t].lvl)
  /\ lastOp' = "tearDown_if"
  /\ UNCHANGED <<tests_to_run, setUpTestCaseCalls, tearDownTestCaseCalls,
                 hookBalance, runnerVars>>

\* leaf.__tests_to_run = None
TearDownReset(t) ==
  /\ thread[t].pc = "tearDown_reset"
  /\ tests_to_run' = [tests_to_run EXCEPT ![leaf(thread[t].lvl, ThreadedLeaf)] = None]
  /\ Goto(t, "tearDown_hook", thread[t].lvl)
  /\ lastOp' = "tearDown_reset"
  /\ UNCHANGED <<setUpTestCaseCalls, tearDownTestCaseCalls, hookBalance, runnerVars>>

\* self.tearDownTestCase()
TearDownHook(t) ==
  /\ thread[t].pc = "tearDown_hook"
  /\ tearDownTestCaseCalls' = [tearDownTestCaseCalls EXCEPT ![ThreadedLeaf] = @ + 1]
  /\ hookBalance' = [hookBalance EXCEPT ![ThreadedLeaf] = @ - 1]
  /\ Goto(t, "tearDown_return", thread[t].lvl)
  /\ lastOp' = "tearDownTestCase"
  /\ UNCHANGED <<tests_to_run, setUpTestCaseCalls, runnerVars>>

\* the wrapper returns: to the wrapper around it, or to the runner
TearDownReturn(t) ==
  /\ thread[t].pc = "tearDown_return"
  /\ IF thread[t].lvl = ThreadedLeaf
     THEN Goto(t, "done", "-")
     ELSE Goto(t, "tearDown_if", ChildToward(thread[t].lvl, ThreadedLeaf))
  /\ lastOp' = "tearDown_return"
  /\ UNCHANGED <<tests_to_run, setUpTestCaseCalls, tearDownTestCaseCalls,
                 hookBalance, runnerVars>>

NextThreaded ==
  \E t \in Threads :
    \/ \E test_name \in test_names(ThreadedLeaf) : Begin(t, test_name)
    \/ SetUpIf(t)
    \/ SetUpAssign(t)
    \/ SetUpHook(t)
    \/ SetUpCall(t)
    \/ TestDiscard(t)
    \/ TestBody(t)
    \/ TearDownBody(t)
    \/ TearDownIf(t)
    \/ TearDownReset(t)
    \/ TearDownHook(t)
    \/ TearDownReturn(t)

SpecThreaded == Init /\ [][NextThreaded]_vars

\* no triple began while another was under way
Serialized == \A t \in Threads : ~thread[t].overlap

\* a thread is between its setUp and its tearDown
BetweenSetUpAndTearDown(t) ==
  thread[t].pc \in {"test_discard", "test_body", "tearDown_body"}

\* C19: the wrappers take no lock.  As long as the triples of the class were
\* run one after the other, setUpTestCase and tearDownTestCase calls
\* alternate, and two threads that ran the two tests made one call of each;
\* once triples have interleaved this is lost: setUpTestCase can be called
\* twice with no tearDownTestCase in between, and tearDownTestCase can be
\* called while another test is between its setUp and its tearDown.
C19_NeedsSerialization ==
  Serialized =>
    /\ hookBalance[ThreadedLeaf] \in {0, 1}
    /\ setUpTestCaseCalls[ThreadedLeaf] <= 1
    /\ lastOp = "tearDownTestCase"
         => \A t \in Threads : ~BetweenSetUpAndTearDown(t)
    /\ ((\A t \in Threads : thread[t].pc = "done")
          /\ {thread[t].test : t \in Threads} = test_names(ThreadedLeaf))
         => /\ setUpTestCaseCalls[ThreadedLeaf] = 1
            /\ tearDownTestCaseCalls[ThreadedLeaf] = 1
            /\ tests_to_run[ThreadedLeaf].isNone

\* both setUps saw None and called setUpTestCase; one thread's tearDown has
\* just called tearDownTestCase while the other's test is still under way
C19_Witness ==
  /\ ~Serialized
  /\ lastOp = "tearDownTestCase"
  /\ setUpTestCaseCalls[ThreadedLeaf] = 2 /\ tearDownTestCaseCalls[ThreadedLeaf] = 1
  /\ \E t \in Threads : BetweenSetUpAndTearDown(t)

\* a is a proper ancestor of d
RECURSIVE IsAncestor(_, _)
IsAncestor(a, d) ==
  d # Root /\ (Parent[d] = a \/ IsAncestor(a, Parent[d]))

\* leaf classes one of which derives from the other: here B, with t1 and t2,
\* and D(B), which inherits them and adds d1
Related(c) == {b \in Leaves : IsAncestor(b, c) \/ IsAncestor(c, b)}

C20_Frame ==
  WrappedCall =>
    \A c \in Related(cur'.self) :
      /\ tests_to_run'[c] = tests_to_run[c]
      /\ setUpTestCaseCalls'[c] = setUpTestCaseCalls[c]
      /\ tearDownTestCaseCalls'[c] = tearDownTestCaseCalls[c]
      /\ hookBalance'[c] = hookBalance[c]

C20_OwnSet ==
  \A c \in Leaves : Related(c) # {} =>
    /\ (Populated /\ cur.self = c) =>
         /\ DeclTests[c] \subseteq log[1].left.names
         /\ \A a \in Related(c) :
              IsAncestor(a, c) => test_names(a) \subseteq log[1].left.names
    /\ (Settled(c) /\ fresh[c] /\ health[c] # "broken" /\ ~tests_to_run[c].isNone)
         => tests_to_run[c].names = test_names(c) \ executed[c]
    /\ (AllRun(c) /\ fresh[c] /\ health[c] = "clean")
         => /\ setUpTestCaseCalls[c] = 1 /\ tearDownTestCaseCalls[c] = 1
            /\ tests_to_run[c].isNone

\* C20: a class with tests of its own that is run as a leaf (B) and a
\* subclass of it that is run as a leaf too (D) each have their own
\* __tests_to_run: no setUp, test or tearDown call on an instance of one
\* changes the other's set or makes a hook call counted for the other - not
\* even D's calls of the test methods it inherits from B, which were wrapped
\* for B -; under every interleaving of their triples each gets one
\* setUpTestCase and one tearDownTestCase call per complete run, and D's set
\* is filled with the inherited names as well as its own.
C20_AncestorIsolation == []C20_OwnSet /\ [][C20_Frame]_vars

\* D has just run t2, inherited from B, while B's own run still has t2 to go
C20_Witness ==
  /\ lastOp = "test" /\ cur = [self |-> "D", test |-> "t2"] /\ ~exc
  /\ "B" \in Related("D") /\ IsAncestor("B", "D")
  /\ tests_to_run["D"] = SetOf({"t1", "d1"})
  /\ executed["B"] = {"t1"} /\ tests_to_run["B"] = SetOf({"t2"})
  /\ setUpTestCaseCalls["B"] = 1 /\ setUpTestCaseCalls["D"] = 1

(***************************************************************************)
(* _SortedListDifference(expected, actual).  Lists are sequences, indexed  *)
(* from 1; an index past the end raises IndexError.                        *)
(***************************************************************************)
MaxLen == 3
MaxElem == 3

\* the sorted lists of at most MaxLen elements of 1..MaxElem: what
\* assertSameElements passes after list.sort()
SortedLists ==
  UNION {{s \in [1..n -> 1..MaxElem] : \A k \in 1..(n - 1) : s[k] <= s[k + 1]}
           : n \in 0..MaxLen}

\* s[i:], with i counted from 1
Slice(s, i) == SubSeq(s, i, Len(s))

\* i += 1, then while s[i] == v: i += 1.  The index the loop stops at: the
\* first one past i that holds another value, or Len(s) + 1, where reading
\* s[i] raises IndexError
RECURSIVE SkipEqual(_, _, _)
SkipEqual(s, i, v) ==
  IF i + 1 <= Len(s) /\ s[i + 1] = v THEN SkipEqual(s, i + 1, v) ELSE i + 1

\* except IndexError: missing.extend(expected[i:]);
\* unexpected.extend(actual[j:]); break
OnIndexError(expected, actual, i, j, missing, unexpected) ==
  [missing    |-> missing \o Slice(expected, i),
   unexpected |-> unexpected \o Slice(actual, j)]

\* the while True loop, entered with the given i, j, missing, unexpected
RECURSIVE Loop(_, _, _, _, _, _)
Loop(expected, actual, i, j, missing, unexpected) ==
  IF i > Len(expected) \/ j > Len(actual)
  THEN OnIndexError(expected, actual, i, j, missing, unexpected)
  ELSE LET e == expected[i]
           a == actual[j]
       IN  IF e < a
           THEN Loop(expected, actual, SkipEqual(expected, i, e), j,
                     Append(missing, e), unexpected)
           ELSE IF e > a
           THEN Loop(expected, actual, i, SkipEqual(actual, j, a),
                     missing, Append(unexpected, a))
           ELSE Loop(expected, actual, SkipEqual(expected, i, e),
                     SkipEqual(actual, j, a), missing, unexpected)

SortedListDifference(expected, actual) ==
  Loop(expected, actual, 1, 1, <<>>, <<>>)

InitDifference ==
  /\ tests_to_run = [c \in Instrumented |-> None]
  /\ setUpTestCaseCalls = [c \in Leaves |-> 0]
  /\ tearDownTestCaseCalls = [c \in Leaves |-> 0]
  /\ log = <<>>
  /\ exc = FALSE
  /\ pc = "idle"
  /\ cur = [self |-> "-", test |-> "-"]
  /\ lastOp = "none"
  /\ executed = [c \in Leaves |-> {}]
  /\ health = [c \in Leaves |-> "clean"]
  /\ fresh = [c \in Leaves |-> TRUE]
  /\ runNo = [c \in Leaves |-> 1]
  /\ raised = 0
  /\ hooks = AllHooks
  /\ ret = NoValue
  /\ hookBalance = [c \in Leaves |-> 0]
  /\ setUpFailed = [c \in Leaves |-> {}]
  /\ thread = [t \in Threads |-> Idle]
  /\ \E expected \in SortedLists, actual \in SortedLists :
       diff = [NoCall EXCEPT !.expected = expected, !.actual = actual]

\* missing, unexpected = _SortedListDifference(expected, actual)
CallSortedListDifference ==
  /\ diff.pc = "idle"
  /\ LET r == SortedListDifference(diff.expected, diff.actual)
     IN  diff' = [diff EXCEPT !.missing = r.missing, !.unexpected = r.unexpected,
                              !.pc = "returned"]
  /\ UNCHANGED <<tests_to_run, setUpTestCaseCalls, tearDownTestCaseCalls, log, exc,
                 pc, cur, lastOp, executed, health, fresh, runNo, raised, hooks,
                 ret, hookBalance, setUpFailed, thread>>

SpecDifference == InitDifference /\ [][CallSortedListDifference]_vars

\* the elements of a list
Elements(s) == {s[k] : k \in 1..Len(s)}

\* the elements of S in increasing order, each once
RECURSIVE Ascending(_)
Ascending(S) ==
  IF S = {} THEN <<>>
  ELSE LET m == CHOOSE x \in S : \A y \in S : x <= y
       IN  <<m>> \o Ascending(S \ {m})

\* C21: for sorted lists expected and actual, _SortedListDifference returns
\* as missing the elements of expected that are not in actual and as
\* unexpected the elements of actual that are not in expected, each of them
\* once, however often it occurs in the inputs.
C21_SortedListDifference ==
  diff.pc = "returned" =>
    /\ diff.missing = Ascending(Elements(diff.expected) \ Elements(diff.actual))
    /\ diff.unexpected = Ascending(Elements(diff.actual) \ Elements(diff.expected))

====
